---- MODULE Spec2Model ----
(***************************************************************************)
(* pipspeak: barcode dictionaries (src/src/barcodes.rs), the four-set      *)
(* configuration (src/src/config.rs) and the per-read pipeline of          *)
(* parse_records and of main (src/src/main.rs).                            *)
(*                                                                         *)
(* Byte strings are sequences of one-character strings.  Option<T> values  *)
(* are records with a tag ("None" / "Some"), a Rust panic is the tag       *)
(* "Panic".  Indices and positions are 0-based as in the source; SubSeq    *)
(* calls add 1.                                                            *)
(*                                                                         *)
(* Input domain: a barcode line holds at least one nucleotide after        *)
(* trimming (a barcode file of blank lines only is not modelled).          *)
(***************************************************************************)
EXTENDS Integers, Sequences, FiniteSets, TLC

VARIABLES
    pc,          \* position of the program / of the current read pair
    lines,       \* the lines of the barcode file given to parse_buffer
    spacer,      \* Option<&Spacer> given to parse_buffer
    exact,       \* the exact flag
    barcodes,    \* Result<Barcodes> of parse_buffer
    call,        \* the last query made on the dictionary
    result,      \* what that query returned
    args,        \* Cli: exact, linkers, offset, umi_len
    config,      \* Config: bc1..bc4, linkers
    nread,       \* the read pairs pulled from r1.zip(r2) so far
    rec,         \* the read pair in the iterator chain and its tuple fields
    statistics,  \* Statistics
    r1_out,      \* records written to r1_out
    r2_out,      \* records written to r2_out
    config_yaml, \* ConfigYaml: the four barcode files and three spacers
    files,       \* the output files created so far
    seen         \* the read pairs pulled from r1.zip(r2), in order

vars == <<pc, lines, spacer, exact, barcodes, call, result,
          args, config, nread, rec, statistics, r1_out, r2_out, config_yaml, files, seen>>

dictVars == <<lines, spacer, exact, barcodes, call, result>>
runVars == <<args, config, nread, rec, statistics, r1_out, r2_out, seen>>
mainVars == <<config_yaml, files>>

----------------------------------------------------------------------------
(* Bounds *)

MaxLines == 2        \* lines in a barcode file
MaxQuery == 3        \* length of a sequence looked up with get_id
MaxHay == 3          \* length of a haystack given to the matcher
MaxReads == 2        \* read pairs in a run
MaxOffset == 1       \* the --offset run parameter
BigOffset == 8       \* an --offset longer than what follows barcode 1 in a read
MaxIdx == 2          \* largest index given to get_barcode and build_barcode

----------------------------------------------------------------------------
(* Values *)

Lexicon == {"A", "C", "G", "T"}

NoneVal == [tag |-> "None", pos |-> 0, idx |-> 0]
PanicVal == [tag |-> "Panic", pos |-> 0, idx |-> 0]
SomeVal(p, i) == [tag |-> "Some", pos |-> p, idx |-> i]

NoSpacer == [some |-> FALSE, seq |-> <<>>]
SomeSpacer(s) == [some |-> TRUE, seq |-> s]

Min(S) == CHOOSE x \in S : \A y \in S : x <= y

Slice(s, from, to) == SubSeq(s, from + 1, to)

----------------------------------------------------------------------------
(* barcodes.rs *)

RECURSIVE TrimStart(_)
TrimStart(l) ==
    IF l # <<>> /\ Head(l) = " " THEN TrimStart(Tail(l)) ELSE l

RECURSIVE TrimEnd(_)
TrimEnd(l) ==
    IF l # <<>> /\ l[Len(l)] = " " THEN TrimEnd(SubSeq(l, 1, Len(l) - 1)) ELSE l

\* str::trim
Trim(l) == TrimEnd(TrimStart(l))

\* Barcodes::read_sequence
ReadSequence(line, sp) ==
    IF sp.some THEN Trim(line) \o sp.seq ELSE Trim(line)

\* The single-substitution variants of one parent over the lexicon.
Mutations(p) ==
    { [p EXCEPT ![i] = c] : i \in 1..Len(p), c \in Lexicon } \ {p}

\* Disambibyte::from_slice(..).unambiguous(): child -> parent for the
\* children produced by exactly one parent that are no parent themselves.
Unambiguous(parents) ==
    LET children == UNION { Mutations(p) : p \in parents }
        owners(c) == { p \in parents : c \in Mutations(p) }
        keep == { c \in children \ parents : Cardinality(owners(c)) = 1 }
    IN  [c \in keep |-> CHOOSE p \in parents : c \in Mutations(p)]

ErrBarcodes == [ok |-> FALSE, map |-> <<>>, index |-> <<>>, len |-> 0, spacer_len |-> 0]

\* parse_buffer accepting any input whose lines do not differ in length
ParseBufferAtMostOneSize(ls, sp, ex) ==
    LET n == Len(ls)
        bcs == [i \in 1..n |-> ReadSequence(ls[i], sp)]
        sizes == { Len(bcs[i]) : i \in 1..n }
        keys == { bcs[i] : i \in 1..n }
        map0 == [k \in keys |-> Min({ i - 1 : i \in { j \in 1..n : bcs[j] = k } })]
        index == [i \in 0..(n - 1) |-> bcs[i + 1]]
        un == IF ex THEN <<>> ELSE Unambiguous(keys)
        map == [k \in keys \cup DOMAIN un |->
                   IF k \in DOMAIN un THEN map0[un[k]] ELSE map0[k]]
    IN  IF Cardinality(sizes) <= 1
        THEN [ok |-> TRUE, map |-> map, index |-> index,
              len |-> IF sizes = {} THEN 0 ELSE CHOOSE s \in sizes : TRUE,
              spacer_len |-> Len(sp.seq)]
        ELSE ErrBarcodes

\* parse_buffer building the variants whatever the exact flag says
ParseBufferIgnoresExact(ls, sp, ex) ==
    LET n == Len(ls)
        bcs == [i \in 1..n |-> ReadSequence(ls[i], sp)]
        sizes == { Len(bcs[i]) : i \in 1..n }
        keys == { bcs[i] : i \in 1..n }
        map0 == [k \in keys |-> Min({ i - 1 : i \in { j \in 1..n : bcs[j] = k } })]
        index == [i \in 0..(n - 1) |-> bcs[i + 1]]
        un == Unambiguous(keys)
        map == [k \in keys \cup DOMAIN un |->
                   IF k \in DOMAIN un THEN map0[un[k]] ELSE map0[k]]
    IN  IF Cardinality(sizes) = 1
        THEN [ok |-> TRUE, map |-> map, index |-> index,
              len |-> CHOOSE s \in sizes : TRUE, spacer_len |-> Len(sp.seq)]
        ELSE ErrBarcodes

\* parse_buffer with the test of the exact flag inverted
ParseBufferExactInverted(ls, sp, ex) ==
    LET n == Len(ls)
        bcs == [i \in 1..n |-> ReadSequence(ls[i], sp)]
        sizes == { Len(bcs[i]) : i \in 1..n }
        keys == { bcs[i] : i \in 1..n }
        map0 == [k \in keys |-> Min({ i - 1 : i \in { j \in 1..n : bcs[j] = k } })]
        index == [i \in 0..(n - 1) |-> bcs[i + 1]]
        un == IF ~ex THEN <<>> ELSE Unambiguous(keys)
        map == [k \in keys \cup DOMAIN un |->
                   IF k \in DOMAIN un THEN map0[un[k]] ELSE map0[k]]
    IN  IF Cardinality(sizes) = 1
        THEN [ok |-> TRUE, map |-> map, index |-> index,
              len |-> CHOOSE s \in sizes : TRUE, spacer_len |-> Len(sp.seq)]
        ELSE ErrBarcodes

\* parse_buffer also accepting the single-substitution variants of the
\* variants (a tolerance of two mismatches)
ParseBufferVariantsOfVariants(ls, sp, ex) ==
    LET n == Len(ls)
        bcs == [i \in 1..n |-> ReadSequence(ls[i], sp)]
        sizes == { Len(bcs[i]) : i \in 1..n }
        keys == { bcs[i] : i \in 1..n }
        map0 == [k \in keys |-> Min({ i - 1 : i \in { j \in 1..n : bcs[j] = k } })]
        index == [i \in 0..(n - 1) |-> bcs[i + 1]]
        un == IF ex THEN <<>> ELSE Unambiguous(keys)
        map1 == [k \in keys \cup DOMAIN un |->
                   IF k \in DOMAIN un THEN map0[un[k]] ELSE map0[k]]
        more == IF ex THEN {}
                ELSE UNION { Mutations(k) : k \in DOMAIN map1 } \ DOMAIN map1
        map == [k \in DOMAIN map1 \cup more |->
                   IF k \in more
                   THEN map1[CHOOSE k1 \in DOMAIN map1 : k \in Mutations(k1)]
                   ELSE map1[k]]
    IN  IF Cardinality(sizes) = 1
        THEN [ok |-> TRUE, map |-> map, index |-> index,
              len |-> CHOOSE s \in sizes : TRUE, spacer_len |-> Len(sp.seq)]
        ELSE ErrBarcodes

\* Barcodes::parse_buffer
ParseBuffer(ls, sp, ex) ==
    LET n == Len(ls)
        bcs == [i \in 1..n |-> ReadSequence(ls[i], sp)]
        sizes == { Len(bcs[i]) : i \in 1..n }
        keys == { bcs[i] : i \in 1..n }
        \* map.entry(barcode).or_insert(idx): the first line wins
        map0 == [k \in keys |-> Min({ i - 1 : i \in { j \in 1..n : bcs[j] = k } })]
        index == [i \in 0..(n - 1) |-> bcs[i + 1]]
        un == IF ex THEN <<>> ELSE Unambiguous(keys)
        \* map.insert(child, map[parent]) replaces an entry already there
        map == [k \in keys \cup DOMAIN un |->
                   IF k \in DOMAIN un THEN map0[un[k]] ELSE map0[k]]
    IN  IF Cardinality(sizes) = 1
        THEN [ok |-> TRUE, map |-> map, index |-> index,
              len |-> CHOOSE s \in sizes : TRUE, spacer_len |-> Len(sp.seq)]
        ELSE ErrBarcodes

\* Barcodes::len
BarcodeLen(bc) == bc.len

\* Barcodes::get_id
GetId(bc, seq) ==
    IF seq \in DOMAIN bc.map THEN SomeVal(0, bc.map[seq]) ELSE NoneVal

\* match_sequence reporting the last window that is a key
MatchSequenceRightmost(bc, seq) ==
    IF Len(seq) < bc.len THEN NoneVal
    ELSE IF bc.len = 0 THEN PanicVal
    ELSE LET hits == { p \in 0..(Len(seq) - bc.len) :
                          Slice(seq, p, p + bc.len) \in DOMAIN bc.map }
         IN  IF hits = {} THEN NoneVal
             ELSE LET p == CHOOSE x \in hits : \A y \in hits : y <= x
                  IN  SomeVal(p + bc.len, bc.map[Slice(seq, p, p + bc.len)])

\* match_sequence returning the start of the match in place of its end
MatchSequenceStartPos(bc, seq) ==
    IF Len(seq) < bc.len THEN NoneVal
    ELSE IF bc.len = 0 THEN PanicVal
    ELSE LET hits == { p \in 0..(Len(seq) - bc.len) :
                          Slice(seq, p, p + bc.len) \in DOMAIN bc.map }
         IN  IF hits = {} THEN NoneVal
             ELSE LET p == Min(hits)
                  IN  SomeVal(p, bc.map[Slice(seq, p, p + bc.len)])

\* Barcodes::match_sequence
MatchSequence(bc, seq) ==
    IF Len(seq) < bc.len THEN NoneVal
    \* slice::windows(0) panics
    ELSE IF bc.len = 0 THEN PanicVal
    ELSE LET hits == { p \in 0..(Len(seq) - bc.len) :
                          Slice(seq, p, p + bc.len) \in DOMAIN bc.map }
         IN  IF hits = {} THEN NoneVal
             ELSE LET p == Min(hits)
                  IN  SomeVal(p + bc.len, bc.map[Slice(seq, p, p + bc.len)])

\* match_subsequence without the check of end against the sequence length:
\* the slice sequence[start..end] then panics
MatchSubsequenceNoEndCheck(bc, seq, start, end) ==
    IF start > Len(seq) \/ start > end THEN NoneVal
    ELSE IF end > Len(seq) THEN PanicVal
    ELSE MatchSequence(bc, Slice(seq, start, end))

\* Barcodes::match_subsequence
MatchSubsequence(bc, seq, start, end) ==
    IF start > Len(seq) \/ end > Len(seq) \/ start > end THEN NoneVal
    ELSE MatchSequence(bc, Slice(seq, start, end))

\* Barcodes::get_barcode(idx, with_spacer) as config.rs calls it: the
\* sequence of line idx, without its spacer suffix when with_spacer is off.
GetBarcode(bc, idx, with_spacer) ==
    IF idx \notin DOMAIN bc.index THEN [tag |-> "None", seq |-> <<>>]
    ELSE IF with_spacer THEN [tag |-> "Some", seq |-> bc.index[idx]]
    ELSE [tag |-> "Some",
          seq |-> SubSeq(bc.index[idx], 1, Len(bc.index[idx]) - bc.spacer_len)]

----------------------------------------------------------------------------
(* config.rs *)

\* the match on set_idx in Config::match_subsequence
SetOf(cfg, set_idx) ==
    CASE set_idx = 0 -> cfg.bc1
      [] set_idx = 1 -> cfg.bc2
      [] set_idx = 2 -> cfg.bc3
      [] set_idx = 3 -> cfg.bc4

\* Config::match_subsequence with the end of the window clamped to the
\* length of the sequence
ConfigMatchSubsequenceClamped(cfg, seq, set_idx, pos, offset) ==
    IF set_idx \notin 0..3 THEN PanicVal
    ELSE LET bc == SetOf(cfg, set_idx)
             end == pos + BarcodeLen(bc) + (IF offset.some THEN offset.val ELSE 0)
         IN  MatchSubsequence(bc, seq, pos, IF end > Len(seq) THEN Len(seq) ELSE end)

\* Config::match_subsequence; offset is [some, val]
ConfigMatchSubsequence(cfg, seq, set_idx, pos, offset) ==
    IF set_idx \notin 0..3 THEN PanicVal
    ELSE LET bc == SetOf(cfg, set_idx)
         IN  IF offset.some
             THEN MatchSubsequence(bc, seq, pos, pos + BarcodeLen(bc) + offset.val)
             ELSE MatchSubsequence(bc, seq, pos, pos + BarcodeLen(bc))

\* build_barcode extending with set 2 before set 1
BuildBarcodeSwapped(cfg, b1_idx, b2_idx, b3_idx, b4_idx) ==
    LET g1 == GetBarcode(cfg.bc1, b1_idx, cfg.linkers)
        g2 == GetBarcode(cfg.bc2, b2_idx, cfg.linkers)
        g3 == GetBarcode(cfg.bc3, b3_idx, cfg.linkers)
        g4 == GetBarcode(cfg.bc4, b4_idx, cfg.linkers)
    IN  IF \E g \in {g1, g2, g3, g4} : g.tag = "None"
        THEN [tag |-> "Panic", seq |-> <<>>]
        ELSE [tag |-> "Some", seq |-> g2.seq \o g1.seq \o g3.seq \o g4.seq]

\* Config::build_barcode; a get_barcode of None panics in expect
BuildBarcode(cfg, b1_idx, b2_idx, b3_idx, b4_idx) ==
    LET g1 == GetBarcode(cfg.bc1, b1_idx, cfg.linkers)
        g2 == GetBarcode(cfg.bc2, b2_idx, cfg.linkers)
        g3 == GetBarcode(cfg.bc3, b3_idx, cfg.linkers)
        g4 == GetBarcode(cfg.bc4, b4_idx, cfg.linkers)
    IN  IF \E g \in {g1, g2, g3, g4} : g.tag = "None"
        THEN [tag |-> "Panic", seq |-> <<>>]
        ELSE [tag |-> "Some", seq |-> g1.seq \o g2.seq \o g3.seq \o g4.seq]

\* Config::from_yaml with the spacers and barcode files of the configuration
FromYaml(yaml, ex, linkers) ==
    [bc1 |-> ParseBuffer(yaml.bc1, SomeSpacer(yaml.s1), ex),
     bc2 |-> ParseBuffer(yaml.bc2, SomeSpacer(yaml.s2), ex),
     bc3 |-> ParseBuffer(yaml.bc3, SomeSpacer(yaml.s3), ex),
     bc4 |-> ParseBuffer(yaml.bc4, NoSpacer, ex),
     linkers |-> linkers]

\* from_yaml without the ? on the fourth load
ConfigOkFirstThree(cfg) == cfg.bc1.ok /\ cfg.bc2.ok /\ cfg.bc3.ok

\* the four ? of Config::from_yaml
ConfigOk(cfg) == cfg.bc1.ok /\ cfg.bc2.ok /\ cfg.bc3.ok /\ cfg.bc4.ok

----------------------------------------------------------------------------
(* Inputs of the dictionary specifications *)

\* Raw lines of a barcode file: two lengths, surrounding whitespace.
LinePool ==
    { <<"A", "A">>, <<"A", "C">>, <<"C", "C">>, <<"A", "C", " ">>,
      <<" ", "A">>, <<"C", " ">> }

SpacerPool == { NoSpacer, SomeSpacer(<<"G">>) }

RECURSIVE SeqsUpTo(_, _)
SeqsUpTo(S, n) ==
    IF n = 0 THEN { <<>> }
    ELSE LET shorter == SeqsUpTo(S, n - 1)
         IN  shorter \cup { Append(s, x) : s \in { t \in shorter : Len(t) = n - 1 }, x \in S }

LineLists == SeqsUpTo(LinePool, MaxLines)

Queries == SeqsUpTo(Lexicon, MaxQuery)

NoCall == [op |-> "none", seq |-> <<>>, start |-> 0, end |-> 0]

RunIdle ==
    /\ args = <<>>
    /\ config = <<>>
    /\ nread = 0
    /\ rec = <<>>
    /\ statistics = <<>>
    /\ r1_out = <<>>
    /\ r2_out = <<>>
    /\ config_yaml = <<>>
    /\ files = {}
    /\ seen = <<>>

----------------------------------------------------------------------------
(* SpecBarcodes: a barcode file is parsed, then looked up by sequence *)

InitBarcodes ==
    /\ pc = "parse"
    /\ lines \in LineLists
    /\ spacer \in SpacerPool
    /\ exact \in BOOLEAN
    /\ barcodes = ErrBarcodes
    /\ call = NoCall
    /\ result = NoneVal
    /\ RunIdle

\* Barcodes::from_buffer / from_buffer_with_spacer
Load ==
    /\ pc = "parse"
    /\ barcodes' = ParseBuffer(lines, spacer, exact)
    /\ pc' = IF barcodes'.ok THEN "loaded" ELSE "failed"
    /\ UNCHANGED <<lines, spacer, exact, call, result>>
    /\ UNCHANGED <<runVars, mainVars>>

\* a call of Barcodes::get_id
CallGetId(q) ==
    /\ pc = "loaded"
    /\ call' = [op |-> "get_id", seq |-> q, start |-> 0, end |-> 0]
    /\ result' = GetId(barcodes, q)
    /\ pc' = "queried"
    /\ UNCHANGED <<lines, spacer, exact, barcodes>>
    /\ UNCHANGED <<runVars, mainVars>>

NextBarcodes ==
    \/ Load
    \/ \E q \in Queries : CallGetId(q)

SpecBarcodes == InitBarcodes /\ [][NextBarcodes]_vars

----------------------------------------------------------------------------
(* SpecMatch: a loaded dictionary is searched in a window of a haystack *)

MatchLineLists ==
    { <<<<"A", "C">>>>, <<<<"A", "C">>, <<"C", "A">>>>,
      <<<<"A", "A">>, <<"A", "C">>>>, <<<<"A">>, <<"C">>>>,
      <<<<"A", "C">>, <<"A", "C">>, <<"C", "C">>>> }

HayAlphabet == {"A", "C", "G"}

Haystacks == SeqsUpTo(HayAlphabet, MaxHay)

InitMatch ==
    /\ pc = "match"
    /\ lines \in MatchLineLists
    /\ spacer \in SpacerPool
    /\ exact \in BOOLEAN
    /\ barcodes = ParseBuffer(lines, spacer, exact)
    /\ call = NoCall
    /\ result = NoneVal
    /\ RunIdle

\* a call of Barcodes::match_subsequence
CallMatchSubsequence(seq, start, end) ==
    /\ pc = "match"
    /\ call' = [op |-> "match_subsequence", seq |-> seq, start |-> start, end |-> end]
    /\ result' = MatchSubsequence(barcodes, seq, start, end)
    /\ pc' = "matched"
    /\ UNCHANGED <<lines, spacer, exact, barcodes>>
    /\ UNCHANGED <<runVars, mainVars>>

NextMatch ==
    \E seq \in Haystacks, start \in 0..(MaxHay + 1), end \in 0..(MaxHay + 1) :
        CallMatchSubsequence(seq, start, end)

SpecMatch == InitMatch /\ [][NextMatch]_vars

----------------------------------------------------------------------------
(* Properties of the dictionary: SpecBarcodes *)

\* The lengths of the lines after trimming and spacer concatenation.
LineLengths == { Len(Trim(lines[i])) + Len(spacer.seq) : i \in 1..Len(lines) }

\* The canonical sequences of the loaded dictionary and their first line.
Canon == { barcodes.index[i] : i \in DOMAIN barcodes.index }
FirstIdx(c) == Min({ i \in DOMAIN barcodes.index : barcodes.index[i] = c })

Hamming(a, b) == Cardinality({ i \in 1..Len(a) : a[i] # b[i] })
Dist(c, q, d) == Len(c) = Len(q) /\ Hamming(c, q) = d
Near(q) == { c \in Canon : Dist(c, q, 1) }

Parsed == pc \in {"loaded", "failed", "queried"}

\* C1 as stated: parse_buffer fails if and only if the line lengths (trimmed,
\* spacer appended) take more than one distinct value.
C1_FailsIffSeveralLengths ==
    Parsed => (~barcodes.ok <=> Cardinality(LineLengths) > 1)

\* C1 amended: parse_buffer fails if and only if the line lengths do not take
\* exactly one distinct value; the empty list of lines fails too.
C1_FailsIffNotOneLength ==
    Parsed => (~barcodes.ok <=> Cardinality(LineLengths) # 1)

C1_Witness ==
    /\ pc = "failed"
    /\ Cardinality(LineLengths) > 1
    /\ spacer.some
    /\ ~exact

\* C2 as stated: in exact mode get_id returns the canonical index iff the
\* query is a canonical sequence, and every single-substitution variant of a
\* canonical sequence returns no-match.
C2_ExactLookupAllVariantsMiss ==
    (pc = "queried" /\ exact) =>
        /\ result.tag = "Some" <=> call.seq \in Canon
        /\ result.tag = "Some" => result.idx = FirstIdx(call.seq)
        /\ Near(call.seq) # {} => result = NoneVal

\* C2 amended: in exact mode get_id returns the canonical index (of the first
\* line holding the sequence) iff the query is a canonical sequence; every
\* single-substitution variant that is not itself canonical returns no-match.
C2_ExactLookup ==
    (pc = "queried" /\ exact) =>
        /\ result.tag = "Some" <=> call.seq \in Canon
        /\ result.tag = "Some" => result.idx = FirstIdx(call.seq)
        /\ (Near(call.seq) # {} /\ call.seq \notin Canon) => result = NoneVal

C2_Witness ==
    /\ pc = "queried"
    /\ exact
    /\ Near(call.seq) # {}
    /\ call.seq \notin Canon
    /\ result = NoneVal

C4_TwoSubstitutionsNeverMatch ==
    (pc = "queried" /\ ~exact /\ \E c \in Canon : Dist(c, call.seq, 2)) =>
        result = NoneVal

\* C4 amended: in fuzzy mode a sequence obtained by substituting two
\* positions of a canonical sequence is no match provided it is at Hamming
\* distance 2 or more from every canonical sequence of the set.
C4_TwoSubstitutionsFarFromAll ==
    (/\ pc = "queried"
     /\ ~exact
     /\ \E c \in Canon : Dist(c, call.seq, 2)
     /\ \A c \in Canon : Len(c) = Len(call.seq) => Hamming(c, call.seq) >= 2) =>
        result = NoneVal

C4_Witness ==
    /\ pc = "queried"
    /\ ~exact
    /\ Cardinality(Canon) >= 2
    /\ \E c \in Canon : Dist(c, call.seq, 2)
    /\ \A c \in Canon : Hamming(c, call.seq) >= 2
    /\ result = NoneVal

----------------------------------------------------------------------------
(* Properties of the matcher: SpecMatch *)

\* The window-relative positions of sequence[start..end] whose length-L
\* substring is a key of the lookup.
WindowHits ==
    LET w == Slice(call.seq, call.start, call.end)
    IN  { p \in 0..(Len(w) - barcodes.len) :
            Slice(w, p, p + barcodes.len) \in DOMAIN barcodes.map }

ValidWindow == call.start <= call.end /\ call.end <= Len(call.seq)

\* C5: on a valid window match_subsequence returns no-match when no length-L
\* substring of the window is a key, and otherwise (p + L, index) for the
\* smallest window-relative position p of a key; the end position counts
\* from start.
C5_LeftmostMatch ==
    (pc = "matched" /\ ValidWindow) =>
        IF WindowHits = {} THEN result = NoneVal
        ELSE \E p \in WindowHits :
                /\ \A r \in WindowHits : p <= r
                /\ result = SomeVal(p + barcodes.len,
                                    barcodes.map[Slice(call.seq, call.start + p,
                                                       call.start + p + barcodes.len)])

C5_Witness ==
    /\ pc = "matched"
    /\ ValidWindow
    /\ call.start > 0
    /\ result.tag = "Some"
    /\ \E p \in WindowHits :
          /\ p + barcodes.len > result.pos
          /\ barcodes.map[Slice(call.seq, call.start + p, call.start + p + barcodes.len)]
                 # result.idx

\* C6: match_subsequence returns no-match, and does not panic, when start or
\* end exceeds the sequence length, start > end, or the window is shorter
\* than L.
C6_BadBoundsNoMatch ==
    (/\ pc = "matched"
     /\ \/ call.start > Len(call.seq)
        \/ call.end > Len(call.seq)
        \/ call.start > call.end
        \/ call.end - call.start < barcodes.len) =>
        result = NoneVal

C6_Witness ==
    /\ pc = "matched"
    /\ call.start <= Len(call.seq)
    /\ call.end > Len(call.seq)
    /\ call.start <= call.end
    /\ result = NoneVal

----------------------------------------------------------------------------
(* main.rs: parse_records *)

\* The barcode files and spacers of the configuration of the run.
Yaml ==
    [bc1 |-> << <<"A">>, <<"C">> >>,           s1 |-> <<"G">>,
     bc2 |-> << <<"C">>, <<"T">> >>,           s2 |-> <<"A">>,
     bc3 |-> << <<"G">> >>,                    s3 |-> <<"T">>,
     bc4 |-> << <<"A", "C">>, <<"C", "A">> >>]

UmiLens == {1, 2}
Offsets == 0..MaxOffset \cup {BigOffset}

\* fastq quality values, one per base; the value at 0-based position i is i
QualOf(seq) == [i \in 1..Len(seq) |-> i - 1]

\* read-1 sequences and the read-2 sequence paired with each
ReadPool ==
    { <<<<"A","G","C","A","G","T","A","C","T">>, <<"T","T">>>>,
      <<<<"A","A","C","C","A","T","G","C","T">>, <<"T","G">>>>,
      <<<<"G","A","G","C","A","G","T","A","C","T">>, <<"G">>>>,
      <<<<"A","G","G","G","G","T","A","C","T">>, <<"C">>>>,
      <<<<"A","G","C","A","A","A","A","C","T">>, <<"C","C">>>>,
      <<<<"A","G","C","A","G","T","A","A","T">>, <<"A">>>>,
      <<<<"A","G","C","A","G","T","A","C">>, <<"A","A">>>>,
      <<<<"A","G">>, <<"A","C">>>>,
      <<<<"A","A","G","C","A","G","T","A","C","T">>, <<"G","G">>>>,
      <<<<"C","G","T","A","G","T","C","A","G","A">>, <<"C","T">>>>,
      <<<<>>, <<>>>> }

NoRec ==
    [rec1 |-> [id |-> 0, seq |-> <<>>, qual |-> <<>>],
     rec2 |-> [id |-> 0, seq |-> <<>>, qual |-> <<>>],
     pos |-> 0, idx |-> <<>>, umi |-> <<>>, c_seq |-> <<>>, c_qual |-> <<>>,
     outcome |-> "none"]

\* Statistics::new
NewStatistics ==
    [total_reads |-> 0, passing_reads |-> 0,
     num_filtered_1 |-> 0, num_filtered_2 |-> 0,
     num_filtered_3 |-> 0, num_filtered_4 |-> 0,
     whitelist |-> {}, whitelist_size |-> 0]

\* Configurations with one barcode file whose lines differ in length.
BadYamls ==
    { [Yaml EXCEPT !.bc1 = << <<"A">>, <<"C", "C">> >>],
      [Yaml EXCEPT !.bc2 = << <<"C", "T">>, <<"T">> >>],
      [Yaml EXCEPT !.bc3 = << <<"G">>, <<"G", "G">> >>],
      [Yaml EXCEPT !.bc4 = << <<"A", "C">>, <<"C">> >>] }

YamlPool == {Yaml} \cup BadYamls

NoConfig == <<>>

\* the start of main: the arguments are parsed
Init ==
    /\ pc = "main"
    /\ args \in [exact : BOOLEAN, linkers : BOOLEAN, offset : Offsets, umi_len : UmiLens]
    /\ config_yaml \in YamlPool
    /\ config = NoConfig
    /\ files = {}
    /\ seen = <<>>
    /\ nread = 0
    /\ rec = NoRec
    /\ statistics = NewStatistics
    /\ r1_out = <<>>
    /\ r2_out = <<>>
    /\ lines = <<>>
    /\ spacer = NoSpacer
    /\ exact = args.exact
    /\ barcodes = ErrBarcodes
    /\ call = NoCall
    /\ result = NoneVal

\* Config::from_file(..)? in main
LoadConfig ==
    /\ pc = "main"
    /\ LET cfg == FromYaml(config_yaml, args.exact, args.linkers)
       IN  IF ConfigOk(cfg)
           THEN config' = cfg /\ pc' = "readers"
           ELSE config' = config /\ pc' = "aborted"
    /\ UNCHANGED <<args, seen, nread, rec, statistics, r1_out, r2_out>>
    /\ UNCHANGED <<dictVars, mainVars>>

\* initialize_reader for r1 and r2
OpenReaders ==
    /\ pc = "readers"
    /\ pc' = "writers"
    /\ UNCHANGED <<args, config, seen, nread, rec, statistics, r1_out, r2_out>>
    /\ UNCHANGED <<dictVars, mainVars>>

\* File::create of the two fastq outputs; parse_records is called
CreateWriters ==
    /\ pc = "writers"
    /\ files' = files \cup {"R1", "R2"}
    /\ pc' = "next"
    /\ UNCHANGED <<args, config, seen, nread, rec, statistics, r1_out, r2_out>>
    /\ UNCHANGED <<dictVars, config_yaml>>

Filtered(counter) ==
    /\ statistics' = [statistics EXCEPT ![counter] = @ + 1]
    /\ rec' = [rec EXCEPT !.outcome = counter]
    /\ pc' = "next"

\* r1.zip(r2) yields a pair; inspect counts it
ReadPair(r) ==
    /\ pc = "next"
    /\ nread < MaxReads
    /\ nread' = nread + 1
    /\ statistics' = [statistics EXCEPT !.total_reads = @ + 1]
    /\ rec' = [NoRec EXCEPT
                 !.rec1 = [id |-> <<nread + 1, 1>>, seq |-> r[1], qual |-> QualOf(r[1])],
                 !.rec2 = [id |-> <<nread + 1, 2>>, seq |-> r[2], qual |-> QualOf(r[2])]]
    /\ pc' = "stage1"
    /\ seen' = Append(seen, r)
    /\ UNCHANGED <<args, config, r1_out, r2_out>>
    /\ UNCHANGED <<dictVars, mainVars>>

\* the first filter_map
Stage1 ==
    /\ pc = "stage1"
    /\ LET m == ConfigMatchSubsequence(config, rec.rec1.seq, 0, 0,
                                       [some |-> TRUE, val |-> args.offset])
       IN  IF m.tag = "Some"
           THEN /\ rec' = [rec EXCEPT !.pos = m.pos, !.idx = <<m.idx>>]
                /\ pc' = "stage2"
                /\ UNCHANGED statistics
           ELSE Filtered("num_filtered_1")
    /\ UNCHANGED <<args, config, seen, nread, r1_out, r2_out>>
    /\ UNCHANGED <<dictVars, mainVars>>

\* the second filter_map keeping the window-relative end position
Stage2RelativePos ==
    /\ pc = "stage2"
    /\ LET m == ConfigMatchSubsequence(config, rec.rec1.seq, 1, rec.pos,
                                       [some |-> FALSE, val |-> 0])
       IN  IF m.tag = "Some"
           THEN /\ rec' = [rec EXCEPT !.pos = m.pos, !.idx = Append(@, m.idx)]
                /\ pc' = "stage3"
                /\ UNCHANGED statistics
           ELSE Filtered("num_filtered_2")
    /\ UNCHANGED <<args, config, seen, nread, r1_out, r2_out>>
    /\ UNCHANGED <<dictVars, mainVars>>

\* the second filter_map retrying stage 1 from a later start on a failure
Stage2Backtrack ==
    /\ pc = "stage2"
    /\ LET seq == rec.rec1.seq
           none == [some |-> FALSE, val |-> 0]
           len1 == BarcodeLen(config.bc1)
           m == ConfigMatchSubsequence(config, seq, 1, rec.pos, none)
           retry == { p \in (rec.pos - len1 + 1)..args.offset :
                        /\ ConfigMatchSubsequence(config, seq, 0, p, none).tag = "Some"
                        /\ ConfigMatchSubsequence(config, seq, 1, p + len1, none).tag = "Some" }
       IN  IF m.tag = "Some"
           THEN /\ rec' = [rec EXCEPT !.pos = rec.pos + m.pos, !.idx = Append(@, m.idx)]
                /\ pc' = "stage3"
                /\ UNCHANGED statistics
           ELSE IF retry # {}
           THEN LET p == Min(retry)
                    m1 == ConfigMatchSubsequence(config, seq, 0, p, none)
                    m2 == ConfigMatchSubsequence(config, seq, 1, p + len1, none)
                IN  /\ rec' = [rec EXCEPT !.pos = p + len1 + m2.pos,
                                          !.idx = <<m1.idx, m2.idx>>]
                    /\ pc' = "stage3"
                    /\ UNCHANGED statistics
           ELSE Filtered("num_filtered_2")
    /\ UNCHANGED <<args, config, seen, nread, r1_out, r2_out>>
    /\ UNCHANGED <<dictVars, mainVars>>

\* the second filter_map
Stage2 ==
    /\ pc = "stage2"
    /\ LET m == ConfigMatchSubsequence(config, rec.rec1.seq, 1, rec.pos,
                                       [some |-> FALSE, val |-> 0])
       IN  IF m.tag = "Some"
           THEN /\ rec' = [rec EXCEPT !.pos = rec.pos + m.pos, !.idx = Append(@, m.idx)]
                /\ pc' = "stage3"
                /\ UNCHANGED statistics
           ELSE Filtered("num_filtered_2")
    /\ UNCHANGED <<args, config, seen, nread, r1_out, r2_out>>
    /\ UNCHANGED <<dictVars, mainVars>>

\* the third filter_map dropping the read without counting it
Stage3NoCount ==
    /\ pc = "stage3"
    /\ LET m == ConfigMatchSubsequence(config, rec.rec1.seq, 2, rec.pos,
                                       [some |-> FALSE, val |-> 0])
       IN  IF m.tag = "Some"
           THEN /\ rec' = [rec EXCEPT !.pos = rec.pos + m.pos, !.idx = Append(@, m.idx)]
                /\ pc' = "stage4"
                /\ UNCHANGED statistics
           ELSE /\ rec' = [rec EXCEPT !.outcome = "num_filtered_3"]
                /\ pc' = "next"
                /\ UNCHANGED statistics
    /\ UNCHANGED <<args, config, seen, nread, r1_out, r2_out>>
    /\ UNCHANGED <<dictVars, mainVars>>

\* the third filter_map
Stage3 ==
    /\ pc = "stage3"
    /\ LET m == ConfigMatchSubsequence(config, rec.rec1.seq, 2, rec.pos,
                                       [some |-> FALSE, val |-> 0])
       IN  IF m.tag = "Some"
           THEN /\ rec' = [rec EXCEPT !.pos = rec.pos + m.pos, !.idx = Append(@, m.idx)]
                /\ pc' = "stage4"
                /\ UNCHANGED statistics
           ELSE Filtered("num_filtered_3")
    /\ UNCHANGED <<args, config, seen, nread, r1_out, r2_out>>
    /\ UNCHANGED <<dictVars, mainVars>>

\* the fourth filter_map
Stage4 ==
    /\ pc = "stage4"
    /\ LET m == ConfigMatchSubsequence(config, rec.rec1.seq, 3, rec.pos,
                                       [some |-> FALSE, val |-> 0])
       IN  IF m.tag = "Some"
           THEN /\ statistics' = [statistics EXCEPT !.passing_reads = @ + 1]
                /\ rec' = [rec EXCEPT !.pos = rec.pos + m.pos, !.idx = Append(@, m.idx)]
                /\ pc' = "umi"
           ELSE Filtered("num_filtered_4")
    /\ UNCHANGED <<args, config, seen, nread, r1_out, r2_out>>
    /\ UNCHANGED <<dictVars, mainVars>>

\* the first map: the slice rec1.seq()[pos..pos + umi_len] panics when the
\* read ends before pos + umi_len
ExtractUmi ==
    /\ pc = "umi"
    /\ IF rec.pos + args.umi_len > Len(rec.rec1.seq)
       THEN /\ pc' = "panic"
            /\ rec' = [rec EXCEPT !.outcome = "panic"]
       ELSE /\ rec' = [rec EXCEPT !.umi = Slice(rec.rec1.seq, rec.pos, rec.pos + args.umi_len),
                                  !.pos = @ + args.umi_len]
            /\ pc' = "construct"
    /\ UNCHANGED <<args, config, seen, nread, statistics, r1_out, r2_out>>
    /\ UNCHANGED <<dictVars, mainVars>>

\* the second map with the quality of the whole matched region of read 1,
\* spacers included, in place of the last construct_seq.len() values
ConstructQualOfRegion ==
    /\ pc = "construct"
    /\ LET bc == BuildBarcode(config, rec.idx[1], rec.idx[2], rec.idx[3], rec.idx[4])
           construct_seq == bc.seq \o rec.umi
           region == BarcodeLen(config.bc1) + BarcodeLen(config.bc2)
                       + BarcodeLen(config.bc3) + BarcodeLen(config.bc4) + Len(rec.umi)
       IN  IF \/ bc.tag = "Panic"
              \/ rec.pos < region
              \/ rec.pos > Len(rec.rec1.qual)
           THEN /\ pc' = "panic"
                /\ rec' = [rec EXCEPT !.outcome = "panic"]
           ELSE /\ rec' = [rec EXCEPT
                             !.c_seq = construct_seq,
                             !.c_qual = Slice(rec.rec1.qual, rec.pos - region, rec.pos)]
                /\ pc' = "write"
    /\ UNCHANGED <<args, config, seen, nread, statistics, r1_out, r2_out>>
    /\ UNCHANGED <<dictVars, mainVars>>

\* the second map: build_barcode, the UMI appended, the quality slice
\* qual[pos - len..pos], which panics when pos < len or pos > qual.len()
Construct ==
    /\ pc = "construct"
    /\ LET bc == BuildBarcode(config, rec.idx[1], rec.idx[2], rec.idx[3], rec.idx[4])
           construct_seq == bc.seq \o rec.umi
       IN  IF \/ bc.tag = "Panic"
              \/ rec.pos < Len(construct_seq)
              \/ rec.pos > Len(rec.rec1.qual)
           THEN /\ pc' = "panic"
                /\ rec' = [rec EXCEPT !.outcome = "panic"]
           ELSE /\ rec' = [rec EXCEPT
                             !.c_seq = construct_seq,
                             !.c_qual = Slice(rec.rec1.qual,
                                              rec.pos - Len(construct_seq), rec.pos)]
                /\ pc' = "write"
    /\ UNCHANGED <<args, config, seen, nread, statistics, r1_out, r2_out>>
    /\ UNCHANGED <<dictVars, mainVars>>

\* the body of the for loop with the matched region of read 1, not the
\* reconstructed sequence, put on the whitelist
WriteRawRegion ==
    /\ pc = "write"
    /\ statistics' = [statistics EXCEPT
                        !.whitelist = @ \cup { Slice(rec.rec1.seq,
                                                     rec.pos - Len(rec.c_seq), rec.pos) }]
    /\ r1_out' = Append(r1_out, [id |-> rec.rec1.id, seq |-> rec.c_seq, qual |-> rec.c_qual])
    /\ r2_out' = Append(r2_out, rec.rec2)
    /\ rec' = [rec EXCEPT !.outcome = "accepted"]
    /\ pc' = "next"
    /\ UNCHANGED <<args, config, seen, nread>>
    /\ UNCHANGED <<dictVars, mainVars>>

\* the body of the for loop writing read 2 under the id of read 1
WriteR2WithR1Id ==
    /\ pc = "write"
    /\ statistics' = [statistics EXCEPT !.whitelist = @ \cup {rec.c_seq}]
    /\ r1_out' = Append(r1_out, [id |-> rec.rec1.id, seq |-> rec.c_seq, qual |-> rec.c_qual])
    /\ r2_out' = Append(r2_out, [rec.rec2 EXCEPT !.id = rec.rec1.id])
    /\ rec' = [rec EXCEPT !.outcome = "accepted"]
    /\ pc' = "next"
    /\ UNCHANGED <<args, config, seen, nread>>
    /\ UNCHANGED <<dictVars, mainVars>>

\* the body of the for loop with a whitelist that keeps the sequences that
\* differ from the one of the record written before
WriteWhitelistRunLength ==
    /\ pc = "write"
    /\ statistics' = [statistics EXCEPT
                        !.whitelist =
                            IF r1_out # <<>> /\ r1_out[Len(r1_out)].seq # rec.c_seq
                            THEN {rec.c_seq}
                            ELSE @ \cup {rec.c_seq}]
    /\ r1_out' = Append(r1_out, [id |-> rec.rec1.id, seq |-> rec.c_seq, qual |-> rec.c_qual])
    /\ r2_out' = Append(r2_out, rec.rec2)
    /\ rec' = [rec EXCEPT !.outcome = "accepted"]
    /\ pc' = "next"
    /\ UNCHANGED <<args, config, seen, nread>>
    /\ UNCHANGED <<dictVars, mainVars>>

\* the body of the for loop
Write ==
    /\ pc = "write"
    /\ statistics' = [statistics EXCEPT !.whitelist = @ \cup {rec.c_seq}]
    /\ r1_out' = Append(r1_out, [id |-> rec.rec1.id, seq |-> rec.c_seq, qual |-> rec.c_qual])
    /\ r2_out' = Append(r2_out, rec.rec2)
    /\ rec' = [rec EXCEPT !.outcome = "accepted"]
    /\ pc' = "next"
    /\ UNCHANGED <<args, config, seen, nread>>
    /\ UNCHANGED <<dictVars, mainVars>>

\* Statistics::calculate_metrics
CalculateMetrics(st) ==
    [st EXCEPT !.whitelist_size = Cardinality(st.whitelist)]

\* the streams are exhausted: the for loop ends, the metrics are computed
Finish ==
    /\ pc = "next"
    /\ statistics' = CalculateMetrics(statistics)
    /\ pc' = "done"
    /\ UNCHANGED <<args, config, seen, nread, rec, r1_out, r2_out>>
    /\ UNCHANGED <<dictVars, mainVars>>

\* statistics.whitelist_to_file in main
WhitelistToFile ==
    /\ pc = "done"
    /\ files' = files \cup {"whitelist"}
    /\ pc' = "whitelist_written"
    /\ UNCHANGED <<args, config, seen, nread, rec, statistics, r1_out, r2_out>>
    /\ UNCHANGED <<dictVars, config_yaml>>

\* log.to_file in main
LogToFile ==
    /\ pc = "whitelist_written"
    /\ files' = files \cup {"log"}
    /\ pc' = "exit"
    /\ UNCHANGED <<args, config, seen, nread, rec, statistics, r1_out, r2_out>>
    /\ UNCHANGED <<dictVars, config_yaml>>

Next ==
    \/ LoadConfig
    \/ OpenReaders
    \/ CreateWriters
    \/ \E r \in ReadPool : ReadPair(r)
    \/ Stage1
    \/ Stage2
    \/ Stage3
    \/ Stage4
    \/ ExtractUmi
    \/ Construct
    \/ Write
    \/ Finish
    \/ WhitelistToFile
    \/ LogToFile

Spec == Init /\ [][Next]_vars

----------------------------------------------------------------------------
(* Properties of the run: Spec *)

FilteredSum ==
    statistics.num_filtered_1 + statistics.num_filtered_2
        + statistics.num_filtered_3 + statistics.num_filtered_4

\* C7: every read pair adds one to total_reads and one to exactly one of
\* passing_reads and the four num_filtered counters, so that after each
\* processed pair and after the run total_reads = passing_reads + the sum of
\* the four num_filtered counters.
C7_ReadsAccounted ==
    /\ statistics.total_reads = nread
    /\ pc \in {"next", "done", "umi", "construct", "write"} =>
           statistics.total_reads = statistics.passing_reads + FilteredSum
    /\ pc \in {"stage1", "stage2", "stage3", "stage4"} =>
           statistics.total_reads = statistics.passing_reads + FilteredSum + 1

C7_Witness ==
    /\ pc = "done"
    /\ statistics.total_reads = 2
    /\ statistics.passing_reads = 1
    /\ statistics.num_filtered_3 = 1

\* The reconstructed sequences of the records written to r1_out.
Reconstructed == { r1_out[i].seq : i \in 1..Len(r1_out) }

\* C8: after each processed pair and after the run the whitelist holds the
\* distinct reconstructed sequences of the passing reads, each once, and its
\* size is at most passing_reads.
C8_Whitelist ==
    pc \in {"next", "done"} =>
        /\ Len(r1_out) = statistics.passing_reads
        /\ statistics.whitelist = Reconstructed
        /\ Cardinality(statistics.whitelist) <= statistics.passing_reads

C8_Witness ==
    /\ pc = "done"
    /\ statistics.passing_reads = 2
    /\ Cardinality(statistics.whitelist) = 1

\* The canonical sequence of line i (0-based) of set k as the barcode file
\* and the spacer give it, and the lengths of the four sets.
SpacerOf(k) == CASE k = 1 -> Yaml.s1 [] k = 2 -> Yaml.s2 [] k = 3 -> Yaml.s3 [] k = 4 -> <<>>
FileOf(k) == CASE k = 1 -> Yaml.bc1 [] k = 2 -> Yaml.bc2 [] k = 3 -> Yaml.bc3 [] k = 4 -> Yaml.bc4
CanonOf(k, i) == Trim(FileOf(k)[i + 1]) \o SpacerOf(k)
CanonSetOf(k) == { CanonOf(k, i) : i \in 0..(Len(FileOf(k)) - 1) }
LenOf(k) == Len(CanonOf(k, 0))
StartOf(k) == IF k = 1 THEN 0 ELSE IF k = 2 THEN LenOf(1)
              ELSE IF k = 3 THEN LenOf(1) + LenOf(2) ELSE LenOf(1) + LenOf(2) + LenOf(3)
BarcodesLen == LenOf(1) + LenOf(2) + LenOf(3) + LenOf(4)

IndexTuples ==
    { i \in [1..4 -> 0..1] : \A k \in 1..4 : i[k] < Len(FileOf(k)) }

\* seg is the canonical sequence c of set k, or c with one substitution that
\* leaves it no canonical sequence and at distance 1 from no other one.
SegmentOf(seg, k, c) ==
    \/ seg = c
    \/ /\ Hamming(seg, c) = 1
       /\ seg \notin CanonSetOf(k)
       /\ \A d \in CanonSetOf(k) \ {c} : Hamming(seg, d) # 1

\* seq is barcode1+spacer1 .. barcode4 of the lines i followed by a UMI of
\* umi_len bytes, with at most one unambiguous substitution per segment.
CleanRead(seq, i) ==
    /\ Len(seq) = BarcodesLen + args.umi_len
    /\ \A k \in 1..4 :
          SegmentOf(Slice(seq, StartOf(k), StartOf(k) + LenOf(k)), k, CanonOf(k, i[k]))

\* The canonical sequences of the lines i, spacers kept or not as the
\* linkers flag says, followed by the UMI bytes of the read.
ExpectedConstruct(seq, i) ==
    LET part(k) == IF args.linkers THEN CanonOf(k, i[k]) ELSE Trim(FileOf(k)[i[k] + 1])
    IN  part(1) \o part(2) \o part(3) \o part(4)
            \o Slice(seq, BarcodesLen, BarcodesLen + args.umi_len)

PairProcessed == nread > 0 /\ pc \in {"next", "done", "panic"}

\* C9 as stated: in fuzzy mode a read 1 equal to the four canonical segments
\* and a UMI, with at most one unambiguous substitution per segment, is
\* accepted and its reconstructed sequence is the canonical concatenation
\* followed by the UMI of the read.
C9_CleanReadAccepted ==
    \A i \in IndexTuples :
        (~args.exact /\ PairProcessed /\ CleanRead(rec.rec1.seq, i)) =>
            /\ rec.outcome = "accepted"
            /\ r1_out # <<>>
            /\ r1_out[Len(r1_out)].seq = ExpectedConstruct(rec.rec1.seq, i)

\* C9 amended: the same, provided the stage-1 window fits in the read, that
\* is L1 + offset <= length of read 1.
C9_CleanReadAcceptedInWindow ==
    \A i \in IndexTuples :
        (/\ ~args.exact
         /\ PairProcessed
         /\ CleanRead(rec.rec1.seq, i)
         /\ LenOf(1) + args.offset <= Len(rec.rec1.seq)) =>
            /\ rec.outcome = "accepted"
            /\ r1_out # <<>>
            /\ r1_out[Len(r1_out)].seq = ExpectedConstruct(rec.rec1.seq, i)

C9_Witness ==
    /\ ~args.exact
    /\ pc = "next"
    /\ args.offset = 1
    /\ rec.outcome = "accepted"
    /\ \E i \in IndexTuples :
          /\ CleanRead(rec.rec1.seq, i)
          /\ \A k \in 1..4 :
                Slice(rec.rec1.seq, StartOf(k), StartOf(k) + LenOf(k)) # CanonOf(k, i[k])
          /\ r1_out[Len(r1_out)].seq = ExpectedConstruct(rec.rec1.seq, i)

\* C10 as stated: with the dictionaries loaded, no read pair, whatever the
\* length or content of read 1, ends the run with a fatal error.
C10_NoFatalError == pc # "panic"

----------------------------------------------------------------------------
(* Properties of main: the order of loading, reading and writing *)

\* The lengths of the lines of one barcode file of the configuration.
FileLineLengths(ls) == { Len(Trim(ls[i])) : i \in 1..Len(ls) }

InconsistentSets ==
    { k \in 1..4 :
        Cardinality(FileLineLengths(
            CASE k = 1 -> config_yaml.bc1 [] k = 2 -> config_yaml.bc2
              [] k = 3 -> config_yaml.bc3 [] OTHER -> config_yaml.bc4)) > 1 }

\* C11: when one of the four barcode files has lines of different lengths the
\* run stops after the load of the configuration: no read pair is pulled or
\* counted and no output file (R1, R2, whitelist, log) is created; and the
\* readers and writers exist only once all four dictionaries are loaded.
C11_LoadBeforeIO ==
    /\ InconsistentSets # {} =>
          /\ pc \in {"main", "aborted"}
          /\ nread = 0
          /\ seen = <<>>
          /\ statistics.total_reads = 0
          /\ files = {}
          /\ r1_out = <<>>
          /\ r2_out = <<>>
    /\ (pc \notin {"main", "aborted"} \/ files # {}) =>
          /\ config # NoConfig
          /\ \A k \in 0..3 : SetOf(config, k).ok

C11_Witness ==
    /\ pc = "aborted"
    /\ InconsistentSets = {4}
    /\ files = {}
    /\ statistics.total_reads = 0

----------------------------------------------------------------------------
(* config.rs: calls of build_barcode and get_barcode on a loaded Config *)

\* Yaml with surrounding whitespace on the lines of the first file.
YamlSpaced == [Yaml EXCEPT !.bc1 = << <<"A", " ">>, <<" ", "C">> >>]

BuildYamls == {Yaml, YamlSpaced}

InitBuild ==
    /\ pc = "built"
    /\ args \in [exact : BOOLEAN, linkers : BOOLEAN, offset : {0}, umi_len : {1}]
    /\ config_yaml \in BuildYamls
    /\ config = FromYaml(config_yaml, args.exact, args.linkers)
    /\ ConfigOk(config)
    /\ files = {}
    /\ seen = <<>>
    /\ nread = 0
    /\ rec = <<>>
    /\ statistics = <<>>
    /\ r1_out = <<>>
    /\ r2_out = <<>>
    /\ lines = <<>>
    /\ spacer = NoSpacer
    /\ exact = args.exact
    /\ barcodes = ErrBarcodes
    /\ call = NoCall
    /\ result = NoneVal

\* a call of Config::build_barcode
CallBuildBarcode(b1_idx, b2_idx, b3_idx, b4_idx) ==
    /\ pc = "built"
    /\ call' = [op |-> "build_barcode", idx |-> <<b1_idx, b2_idx, b3_idx, b4_idx>>]
    /\ result' = BuildBarcode(config, b1_idx, b2_idx, b3_idx, b4_idx)
    /\ pc' = "called"
    /\ UNCHANGED <<lines, spacer, exact, barcodes>>
    /\ UNCHANGED <<runVars, mainVars>>

\* a call of get_barcode on set k (1..4) of the Config
CallGetBarcode(k, idx, with_spacer) ==
    /\ pc = "built"
    /\ call' = [op |-> "get_barcode", set |-> k, idx |-> idx, with_spacer |-> with_spacer]
    /\ result' = GetBarcode(SetOf(config, k - 1), idx, with_spacer)
    /\ pc' = "called"
    /\ UNCHANGED <<lines, spacer, exact, barcodes>>
    /\ UNCHANGED <<runVars, mainVars>>

NextBuild ==
    \/ \E b1_idx, b2_idx, b3_idx, b4_idx \in 0..MaxIdx :
           CallBuildBarcode(b1_idx, b2_idx, b3_idx, b4_idx)
    \/ \E k \in 1..4, idx \in 0..MaxIdx, with_spacer \in BOOLEAN :
           CallGetBarcode(k, idx, with_spacer)

SpecBuild == InitBuild /\ [][NextBuild]_vars

\* The lines and the spacer of set k in the configuration file.
YamlFile(k) ==
    CASE k = 1 -> config_yaml.bc1 [] k = 2 -> config_yaml.bc2
      [] k = 3 -> config_yaml.bc3 [] k = 4 -> config_yaml.bc4
YamlSpacer(k) ==
    CASE k = 1 -> config_yaml.s1 [] k = 2 -> config_yaml.s2
      [] k = 3 -> config_yaml.s3 [] k = 4 -> <<>>

\* Line idx of set k, trimmed, followed by the spacer of the set when asked.
ExpectedBarcode(k, idx, with_spacer) ==
    Trim(YamlFile(k)[idx + 1]) \o (IF with_spacer THEN YamlSpacer(k) ELSE <<>>)

InRange(k, idx) == idx < Len(YamlFile(k))

\* C12: for four in-range indices build_barcode is the concatenation, in
\* the order of the sets 1..4, of the sequences get_barcode gives for the
\* spacer flag of the Config: line idx without the spacer when the flag is
\* off, with it when on, and the same for set 4 either way; get_barcode is
\* None for every index at or past the number of lines.
C12_BuildBarcode ==
    /\ (pc = "called" /\ call.op = "build_barcode"
            /\ \A k \in 1..4 : InRange(k, call.idx[k])) =>
          /\ result.tag = "Some"
          /\ result.seq = ExpectedBarcode(1, call.idx[1], args.linkers)
                            \o ExpectedBarcode(2, call.idx[2], args.linkers)
                            \o ExpectedBarcode(3, call.idx[3], args.linkers)
                            \o ExpectedBarcode(4, call.idx[4], args.linkers)
    /\ (pc = "called" /\ call.op = "get_barcode") =>
          IF InRange(call.set, call.idx)
          THEN /\ result.tag = "Some"
               /\ result.seq = ExpectedBarcode(call.set, call.idx, call.with_spacer)
               /\ call.set = 4 => result.seq = Trim(YamlFile(4)[call.idx + 1])
          ELSE result.tag = "None"

C12_Witness ==
    /\ pc = "called"
    /\ call.op = "build_barcode"
    /\ args.linkers
    /\ config_yaml = YamlSpaced
    /\ call.idx = <<1, 1, 0, 1>>
    /\ result.seq = <<"C", "G", "T", "A", "G", "T", "C", "A">>

----------------------------------------------------------------------------
(* Properties of the pipeline: the order and the positions of the stages *)

StagePcs == {"stage1", "stage2", "stage3", "stage4"}
StageNo(p) == CASE p = "stage1" -> 1 [] p = "stage2" -> 2 [] p = "stage3" -> 3 [] p = "stage4" -> 4
CounterOf(p) ==
    CASE p = "stage1" -> "num_filtered_1" [] p = "stage2" -> "num_filtered_2"
      [] p = "stage3" -> "num_filtered_3" [] p = "stage4" -> "num_filtered_4"
AfterStage(p) ==
    CASE p = "stage1" -> "stage2" [] p = "stage2" -> "stage3"
      [] p = "stage3" -> "stage4" [] p = "stage4" -> "umi"

\* The keys of set k (1..4) of the loaded Config and the length of the set.
KeysOf(k) == DOMAIN SetOf(config, k - 1).map
SetLen(k) == BarcodeLen(SetOf(config, k - 1))

\* The start positions within the stage-1 window at which seq has a key of set 1.
Stage1Hits(seq) ==
    { p \in 0..args.offset :
        /\ p + SetLen(1) <= Len(seq)
        /\ Slice(seq, p, p + SetLen(1)) \in KeysOf(1) }

\* seq has keys of the sets 1..4 back to back from position p.
PassesFrom(seq, p) ==
    /\ p + SetLen(1) + SetLen(2) + SetLen(3) + SetLen(4) <= Len(seq)
    /\ Slice(seq, p, p + SetLen(1)) \in KeysOf(1)
    /\ Slice(seq, p + SetLen(1), p + SetLen(1) + SetLen(2)) \in KeysOf(2)
    /\ Slice(seq, p + SetLen(1) + SetLen(2),
             p + SetLen(1) + SetLen(2) + SetLen(3)) \in KeysOf(3)
    /\ Slice(seq, p + SetLen(1) + SetLen(2) + SetLen(3),
             p + SetLen(1) + SetLen(2) + SetLen(3) + SetLen(4)) \in KeysOf(4)

\* C13: the pipeline never backtracks.  A stage that fails adds one to its
\* own counter and changes nothing else of the statistics, writes nothing to
\* either output, adds nothing to the whitelist, and the pair goes through no
\* later stage; stage 1 commits to its leftmost match, and a later stage
\* either drops the pair or goes on from that match, never from another
\* start position of stage 1.
C13_NoBacktrack ==
    [][ /\ (pc \in StagePcs /\ pc' = "next") =>
              /\ statistics' = [statistics EXCEPT ![CounterOf(pc)] = @ + 1]
              /\ statistics'.whitelist = statistics.whitelist
              /\ r1_out' = r1_out
              /\ r2_out' = r2_out
              /\ rec' = [rec EXCEPT !.outcome = CounterOf(pc)]
        /\ pc \in StagePcs => pc' \in {"next", AfterStage(pc)}
        /\ (pc = "stage1" /\ pc' = "stage2") =>
              rec'.pos = Min(Stage1Hits(rec.rec1.seq)) + SetLen(1)
        /\ (pc \in StagePcs \ {"stage1"} /\ pc' = AfterStage(pc)) =>
              /\ rec'.pos = rec.pos + SetLen(StageNo(pc))
              /\ SubSeq(rec'.idx, 1, Len(rec.idx)) = rec.idx
        /\ pc = "next" =>
              /\ pc' \in {"stage1", "done"}
              /\ pc' = "stage1" => nread' = nread + 1
      ]_vars

\* a pair dropped at stage 2 although a later start inside the stage-1
\* window would pass all four stages
C13_Witness ==
    /\ pc = "next"
    /\ rec.outcome = "num_filtered_2"
    /\ statistics.num_filtered_2 = 1
    /\ statistics.passing_reads = 0
    /\ r1_out = <<>>
    /\ r2_out = <<>>
    /\ statistics.whitelist = {}
    /\ \E p \in Stage1Hits(rec.rec1.seq) :
          /\ p > Min(Stage1Hits(rec.rec1.seq))
          /\ PassesFrom(rec.rec1.seq, p)

\* The sum of the lengths of the sets 1..n.
SetLenSum(n) == IF n = 0 THEN 0
                ELSE IF n = 1 THEN SetLen(1)
                ELSE IF n = 2 THEN SetLen(1) + SetLen(2)
                ELSE IF n = 3 THEN SetLen(1) + SetLen(2) + SetLen(3)
                ELSE SetLen(1) + SetLen(2) + SetLen(3) + SetLen(4)

\* The n stages passed matched back to back from p1: the segment of stage k
\* starts where the one of stage k - 1 ended and is a key of set k that maps
\* to the index the pipeline carries.
MatchedFrom(p1, n) ==
    \A k \in 1..n :
        LET seg == Slice(rec.rec1.seq, p1 + SetLenSum(k - 1), p1 + SetLenSum(k))
        IN  /\ p1 + SetLenSum(k) <= Len(rec.rec1.seq)
            /\ seg \in KeysOf(k)
            /\ SetOf(config, k - 1).map[seg] = rec.idx[k]

\* C14: the position the pipeline carries is absolute.  After n stages it is
\* p1 plus the lengths of the sets 1..n, where the stage-1 match starts at
\* p1 with 0 <= p1 <= offset and every later stage matched exactly where the
\* previous one ended; for every read that passed stage 4 the end of stage 4
\* is p1 + L1 + L2 + L3 + L4.
C14_AbsolutePositions ==
    /\ pc \in {"stage2", "stage3", "stage4", "umi"} =>
          LET n == Len(rec.idx)
              p1 == rec.pos - SetLenSum(n)
          IN  /\ n = (IF pc = "umi" THEN 4 ELSE StageNo(pc) - 1)
              /\ 0 <= p1
              /\ p1 <= args.offset
              /\ MatchedFrom(p1, n)
    /\ (pc \in {"construct", "write"} \/ (pc = "next" /\ nread > 0 /\ rec.outcome = "accepted")) =>
          LET p1 == rec.pos - args.umi_len - SetLenSum(4)
          IN  /\ Len(rec.idx) = 4
              /\ 0 <= p1
              /\ p1 <= args.offset
              /\ MatchedFrom(p1, 4)

\* an accepted read whose stage-1 match does not start at position 0
C14_Witness ==
    /\ pc = "next"
    /\ rec.outcome = "accepted"
    /\ args.offset = 1
    /\ rec.pos - args.umi_len - SetLenSum(4) = 1
    /\ MatchedFrom(1, 4)

----------------------------------------------------------------------------
(* Properties of the emitted records *)

Accepted == pc = "next" /\ nread > 0 /\ rec.outcome = "accepted"

\* C15: for every accepted read, with the spacer flag on or off and whatever
\* the start of the stage-1 match, the emitted quality string is as long as
\* the reconstructed sequence and is the slice of the quality of read 1 that
\* ends at the end of stage 4 plus umi_len; the start of that slice, the end
\* minus the length of the reconstructed sequence, is never below 0.
C15_QualitySlice ==
    /\ pc = "construct" =>
          LET bc == BuildBarcode(config, rec.idx[1], rec.idx[2], rec.idx[3], rec.idx[4])
          IN  /\ bc.tag = "Some"
              /\ rec.pos - (Len(bc.seq) + Len(rec.umi)) >= 0
              /\ rec.pos <= Len(rec.rec1.qual)
    /\ (pc = "write" \/ Accepted) =>
          LET n == Len(rec.c_seq)
              end == rec.pos
          IN  /\ end - n >= 0
              /\ Len(rec.c_qual) = n
              /\ rec.c_qual = [j \in 1..n |-> rec.rec1.qual[end - n + j]]
              /\ rec.c_qual = [j \in 1..n |-> end - n + j - 1]
    /\ Accepted =>
          /\ r1_out[Len(r1_out)].qual = rec.c_qual
          /\ r1_out[Len(r1_out)].seq = rec.c_seq
    /\ \A i \in 1..Len(r1_out) : Len(r1_out[i].qual) = Len(r1_out[i].seq)
    /\ ~(pc = "panic" /\ rec.umi # <<>>)

\* an accepted read with the spacer flag off and a stage-1 match at 1: the
\* quality slice starts past the start of the match
C15_Witness ==
    /\ Accepted
    /\ ~args.linkers
    /\ args.offset = 1
    /\ rec.pos - args.umi_len - SetLenSum(4) = 1
    /\ Len(rec.c_seq) < SetLenSum(4) + args.umi_len
    /\ r1_out[Len(r1_out)].qual[1] = rec.pos - Len(rec.c_seq)

\* The chain of parse_records on one read 1, as a function of the read: the
\* closure at which the pair leaves the chain and, when it reaches the for
\* loop, the reconstructed sequence and its quality.
ProcessRead(cfg, a, seq) ==
    LET none == [some |-> FALSE, val |-> 0]
        drop(counter) == [outcome |-> counter, c_seq |-> <<>>, c_qual |-> <<>>]
        m1 == ConfigMatchSubsequence(cfg, seq, 0, 0, [some |-> TRUE, val |-> a.offset])
    IN  IF m1.tag # "Some" THEN drop("num_filtered_1")
        ELSE
    LET m2 == ConfigMatchSubsequence(cfg, seq, 1, m1.pos, none)
    IN  IF m2.tag # "Some" THEN drop("num_filtered_2")
        ELSE
    LET pos2 == m1.pos + m2.pos
        m3 == ConfigMatchSubsequence(cfg, seq, 2, pos2, none)
    IN  IF m3.tag # "Some" THEN drop("num_filtered_3")
        ELSE
    LET pos3 == pos2 + m3.pos
        m4 == ConfigMatchSubsequence(cfg, seq, 3, pos3, none)
    IN  IF m4.tag # "Some" THEN drop("num_filtered_4")
        ELSE
    LET pos4 == pos3 + m4.pos
        pos == pos4 + a.umi_len
        bc == BuildBarcode(cfg, m1.idx, m2.idx, m3.idx, m4.idx)
        construct_seq == bc.seq \o Slice(seq, pos4, pos)
    IN  IF \/ pos > Len(seq)
           \/ bc.tag = "Panic"
           \/ pos < Len(construct_seq)
        THEN drop("panic")
        ELSE [outcome |-> "accepted",
              c_seq |-> construct_seq,
              c_qual |-> Slice(QualOf(seq), pos - Len(construct_seq), pos)]

\* The number of pairs that have gone through the whole loop body.
Completed == pc \in {"done", "whitelist_written", "exit"}
NumProcessed == IF pc = "next" \/ Completed THEN nread ELSE nread - 1

\* The numbers, in input order, of the pairs processed and accepted.
AcceptedPairs ==
    { n \in 1..NumProcessed :
        ProcessRead(config, args, seen[n][1]).outcome = "accepted" }

\* C16: every accepted pair puts exactly one record on each output, in input
\* order: the R1 record has the id of read 1 and the reconstructed sequence
\* with its quality, the R2 record is read 2 unchanged (id, sequence,
\* quality); the k-th records of the two outputs come from the same input
\* pair, and after a completed run both outputs hold passing_reads records.
C16_PairedOutput ==
    nread > 0 =>
        /\ Len(r1_out) = Len(r2_out)
        /\ { r1_out[k].id[1] : k \in 1..Len(r1_out) } = AcceptedPairs
        /\ Len(r1_out) = Cardinality(AcceptedPairs)
        /\ \A k \in 1..Len(r1_out) :
              LET n == r1_out[k].id[1]
                  c == ProcessRead(config, args, seen[n][1])
              IN  /\ r1_out[k] = [id |-> <<n, 1>>, seq |-> c.c_seq, qual |-> c.c_qual]
                  /\ r2_out[k] = [id |-> <<n, 2>>, seq |-> seen[n][2],
                                  qual |-> QualOf(seen[n][2])]
        /\ \A k, l \in 1..Len(r1_out) : k < l => r1_out[k].id[1] < r1_out[l].id[1]
        /\ Completed =>
              /\ Len(r1_out) = statistics.passing_reads
              /\ Len(r2_out) = statistics.passing_reads

\* a completed run of a dropped pair followed by an accepted one: the only
\* record of each output comes from the second pair
C16_Witness ==
    /\ pc = "done"
    /\ nread = 2
    /\ AcceptedPairs = {2}
    /\ Len(r1_out) = 1
    /\ r1_out[1].id = <<2, 1>>
    /\ r2_out[1].id = <<2, 2>>
    /\ r2_out[1].seq = seen[2][2]
    /\ r1_out[1].seq # seen[2][1]

----------------------------------------------------------------------------
(* Properties of the statistics: independence of the input order *)

StatFields ==
    {"total_reads", "passing_reads", "num_filtered_1", "num_filtered_2",
     "num_filtered_3", "num_filtered_4", "whitelist"}

\* The counters and the whitelist of a Statistics, without the metrics
\* derived from them.
Counts(st) == [f \in StatFields |-> st[f]]

\* Two statistics merged: counters added, whitelists united.
Merge(a, b) ==
    [f \in StatFields |->
        IF f = "whitelist" THEN a[f] \cup b[f] ELSE a[f] + b[f]]

\* The statistics of a run over the one pair r.
StatsOfPair(r) ==
    LET o == ProcessRead(config, args, r[1])
    IN  [f \in StatFields |->
            CASE f = "whitelist" ->
                     IF o.outcome = "accepted" THEN {o.c_seq} ELSE {}
              [] f = "total_reads" -> 1
              [] f = "passing_reads" -> IF o.outcome = "accepted" THEN 1 ELSE 0
              [] OTHER -> IF o.outcome = f THEN 1 ELSE 0]

\* The statistics of batches merged from left to right.
RECURSIVE MergeAll(_)
MergeAll(batches) ==
    IF batches = <<>> THEN Counts(NewStatistics)
    ELSE Merge(MergeAll(SubSeq(batches, 1, Len(batches) - 1)), batches[Len(batches)])

\* C17: the final statistics (total_reads, passing_reads, the four
\* num_filtered counters and the whitelist) depend only on the multiset of
\* the input pairs: a run over the pairs in any other order, or over the
\* pairs split into batches whose statistics are merged by adding the
\* counters and uniting the whitelists, ends with the same statistics.
C17_OrderIndependent ==
    pc = "done" =>
        LET one == [n \in 1..Len(seen) |-> StatsOfPair(seen[n])]
        IN  \A p \in Permutations(1..Len(seen)) :
                LET reordered == [i \in 1..Len(seen) |-> one[p[i]]]
                IN  /\ Counts(statistics) = MergeAll(reordered)
                    /\ \A cut \in 0..Len(seen) :
                          Counts(statistics) =
                              Merge(MergeAll(SubSeq(reordered, 1, cut)),
                                    MergeAll(SubSeq(reordered, cut + 1, Len(seen))))

\* a completed run of two pairs, one dropped at stage 3 and one accepted
C17_Witness ==
    /\ pc = "done"
    /\ nread = 2
    /\ seen[1] # seen[2]
    /\ statistics.num_filtered_3 = 1
    /\ statistics.passing_reads = 1
    /\ Cardinality(statistics.whitelist) = 1
    /\ StatsOfPair(seen[1]) # StatsOfPair(seen[2])

----------------------------------------------------------------------------
(* Properties of the stage-1 window *)

\* The pairs pulled so far whose read 1 is shorter than the stage-1 window.
ShortPairs == { n \in 1..nread : Len(seen[n][1]) < SetLen(1) + args.offset }

\* C18: stage 1 drops every read 1 shorter than L1 + offset and counts it in
\* num_filtered_1, even one that starts with a key of set 1: the end of the
\* window is past the end of the read and the matcher answers no match; it
\* does not shorten the window to the read.
C18_ShortReadFiltered ==
    nread > 0 =>
        /\ nread \in ShortPairs =>
              \/ pc = "stage1"
              \/ /\ pc = "next" \/ Completed
                 /\ rec.outcome = "num_filtered_1"
        /\ statistics.num_filtered_1 >=
              Cardinality(ShortPairs) - (IF pc = "stage1" /\ nread \in ShortPairs THEN 1 ELSE 0)
        /\ \A k \in 1..Len(r1_out) : r1_out[k].id[1] \notin ShortPairs

\* a read 1 that has keys of the four sets back to back from position 0,
\* dropped at stage 1 because it is shorter than L1 + offset
C18_Witness ==
    /\ pc = "next"
    /\ nread = 1
    /\ nread \in ShortPairs
    /\ PassesFrom(rec.rec1.seq, 0)
    /\ rec.outcome = "num_filtered_1"
    /\ statistics.num_filtered_1 = 1
    /\ statistics.passing_reads = 0

====
